---- MODULE Spec2Model ----
(***************************************************************************)
(* Shopper Baskets mutation hooks of commerce-sdk-react.                   *)
(*                                                                         *)
(* useShopperBasketsMutation(mutation) (hooks/ShopperBaskets/mutation.ts)  *)
(* looks up the cache-update entry of the mutation, wraps the API client   *)
(* method of the same name and hands both to the generic useMutation hook. *)
(* The generic hook (hooks/useMutation.ts), the cache-update matrix        *)
(* (hooks/ShopperBaskets/cache.ts) and the query cache are collaborators   *)
(* of this file; their behaviour is taken from the design document.        *)
(*                                                                         *)
(* One step of the model is one task of the JavaScript event loop: a       *)
(* render that creates a hook, a call of the invocation function, or the   *)
(* arrival of the response of one API call together with everything the    *)
(* promise chain does with it before the next task.                        *)
(***************************************************************************)
EXTENDS Integers, Sequences, FiniteSets, TLC

\* ------------------------------------------------------------------ bounds
MaxHooks == 2
MaxInvocations == 2
MaxTests == 3

BasketIds == {"b1", "b2"}
Errors == {"http400", "networkFailure"}

\* ------------------------------------------------------------- enumeration
\* The values of the ShopperBasketsMutations object.
ShopperBasketsMutations ==
    { "createBasket", "transferBasket", "mergeBasket", "deleteBasket",
      "updateBasket", "updateBillingAddressForBasket", "addCouponToBasket",
      "removeCouponFromBasket", "updateCustomerForBasket",
      "addGiftCertificateItemToBasket", "removeGiftCertificateItemFromBasket",
      "updateGiftCertificateItemInBasket", "addItemToBasket",
      "removeItemFromBasket", "updateItemInBasket", "addTaxesForBasketItem",
      "addPaymentInstrumentToBasket", "removePaymentInstrumentFromBasket",
      "updatePaymentInstrumentInBasket", "addPriceBooksToBasket",
      "createShipmentForBasket", "removeShipmentFromBasket",
      "updateShipmentForBasket", "updateShippingAddressForShipment",
      "updateShippingMethodForShipment", "addTaxesForBasket" }

\* Mutations that create or delete a basket, that involve two baskets, and
\* those that change a basket or one of its sub-resources.
CreateDeleteMutations == {"createBasket", "deleteBasket"}
TwoBasketMutations == {"mergeBasket", "transferBasket"}
SubResourceMutations ==
    ShopperBasketsMutations \ (CreateDeleteMutations \cup TwoBasketMutations)

\* ------------------------------------------------------------------ values
HookIds == 1..MaxHooks
NoHook == [mutation |-> "none"]

\* Caller-supplied options: the basket the request names.  For merge and
\* transfer it is the previous shopper's (source) basket.
Options == [basketId : BasketIds]
\* Response payload: the basket the server answers with.
Payloads == [basketId : BasketIds]
NoData == [undefined |-> TRUE]
NoError == "none"
Pending == [returned |-> FALSE, ok |-> FALSE, payload |-> NoData,
            error |-> NoError]

\* --------------------------------------------------------------- the cache
\* Cache key: resource name + parameters.
BasketKey(b) == <<"basket", b>>
ListKey == <<"customerBaskets", "*">>
CacheKeys == {BasketKey(b) : b \in BasketIds} \cup {ListKey}
\* Every query has been fetched once.
InitCache == [k \in CacheKeys |-> "fresh"]

VARIABLES hooks, invocations, cache, cacheLog, completed

\* The two module-level objects as they are at run time: the values of the
\* ShopperBasketsMutations object and the cache-update matrix.
VARIABLES mutationsObject, matrix

\* The test run of the Shopper Contexts query hooks: nock's pending
\* interceptors, the running test, the rendered query hook, the request in
\* flight and the verdicts of the finished tests.
VARIABLES pendingMocks, test, query, request, verdicts

hookVars == <<hooks, invocations, cache, cacheLog, completed>>
staticVars == <<mutationsObject, matrix>>
testVars == <<pendingMocks, test, query, request, verdicts>>
vars == <<hooks, invocations, cache, cacheLog, completed,
          mutationsObject, matrix,
          pendingMocks, test, query, request, verdicts>>

\* ------------------------------------------------- the cache-update matrix
\* One entry per mutation: which recipe the mutation's success triggers.
\*   createBasket     insert the created basket, invalidate the list
\*   deleteBasket     remove the deleted basket, invalidate the list
\*   merge, transfer  remove the source basket, invalidate the destination
\*   everything else  invalidate the parent basket
cacheUpdateMatrix ==
    [m \in ShopperBasketsMutations |->
        [entry |-> m,
         recipe |-> IF m = "createBasket" THEN "insertBasket"
                    ELSE IF m = "deleteBasket" THEN "removeBasket"
                    ELSE IF m \in TwoBasketMutations THEN "moveBasket"
                    ELSE "invalidateBasket"]]

UndefinedEntry == [entry |-> "undefined", recipe |-> "none"]

\* A cache-update entry applied to (options, response data): the set of
\* invalidate / update / remove actions over cache keys.
CacheUpdates(entry, options, data) ==
    LET dataId == IF data = NoData THEN "undefined" ELSE data.basketId
        invalidateList == [op |-> "invalidate", key |-> ListKey]
    IN  IF entry.recipe = "insertBasket"
            THEN {invalidateList, [op |-> "update", key |-> BasketKey(dataId)]}
        ELSE IF entry.recipe = "removeBasket"
            THEN {invalidateList,
                  [op |-> "remove", key |-> BasketKey(options.basketId)]}
        ELSE IF entry.recipe = "moveBasket"
            THEN {[op |-> "remove", key |-> BasketKey(options.basketId)],
                  [op |-> "invalidate", key |-> BasketKey(dataId)]}
        ELSE IF entry.recipe = "invalidateBasket"
            THEN {[op |-> "invalidate", key |-> BasketKey(options.basketId)]}
        ELSE {}

\* The query-cache primitives applied for one recipe: invalidate marks a
\* cached entry stale, remove drops it, update stores the response.
updateCache(c, updates) ==
    [k \in CacheKeys |->
        IF [op |-> "update", key |-> k] \in updates THEN "fresh"
        ELSE IF [op |-> "remove", key |-> k] \in updates THEN "absent"
        ELSE IF [op |-> "invalidate", key |-> k] \in updates /\ c[k] = "fresh"
            THEN "stale"
        ELSE c[k]]

\* ---------------------------------------------- useShopperBasketsMutation
\* Faulty lookups: a key that is not in the matrix, and one fixed key.
getCacheUpdatesMissing(mutation) == UndefinedEntry

getCacheUpdatesFixedKey(mutation) == cacheUpdateMatrix["createBasket"]

\* const getCacheUpdates = cacheUpdateMatrix[mutation]
getCacheUpdates(mutation) ==
    IF mutation \in DOMAIN matrix THEN matrix[mutation] ELSE UndefinedEntry

\* Faulty method: the client is called twice.
methodTwice(mutation, opts) ==
    << [method |-> mutation, options |-> opts],
       [method |-> mutation, options |-> opts] >>

\* Faulty method: another client method is called.
methodOther(mutation, opts) ==
    << [method |-> "updateBasket", options |-> opts] >>

\* method: (opts) => client[mutation](opts): the API client calls one run of
\* the method makes.
method(mutation, opts) == << [method |-> mutation, options |-> opts] >>

\* Faulty methods: a rejection is caught and the promise resolves with
\* nothing; the client's promise is not returned, so the data is lost.
methodResultCaught(response) ==
    IF response.ok THEN response
    ELSE [returned |-> TRUE, ok |-> TRUE, payload |-> NoData,
          error |-> NoError]

methodResultNotReturned(response) ==
    [returned |-> TRUE, ok |-> TRUE, payload |-> NoData, error |-> NoError]

\* The promise `method` returns is the promise of the client call: it
\* settles as the HTTP client settles it.
methodResult(response) == response

\* What the HTTP client can answer.
Responses ==
    {[returned |-> TRUE, ok |-> TRUE, payload |-> p, error |-> NoError] :
        p \in Payloads}
    \cup
    {[returned |-> TRUE, ok |-> FALSE, payload |-> NoData, error |-> e] :
        e \in Errors}

\* ------------------------------------------- the query hook test (values)
QueryNames == {"useShopperContext"}
contextsEndpoint == "/shopper/shopper-context/"
\* Bodies a mocked endpoint answers with; the error test answers {}.
QueryPayloads == {[customQualifiers |-> q] : q \in {"none", "vip"}}
EmptyBody == [empty |-> TRUE]
NoTest == [name |-> "none", queryName |-> "none", expected |-> NoData,
           phase |-> "idle"]
NoQuery == [status |-> "unmounted", data |-> NoData, error |-> NoError]
NoRequest == [token |-> "none", sent |-> FALSE, path |-> "none",
              replied |-> FALSE, code |-> 0, body |-> EmptyBody]
SuccessTest == "returns data on success"
ErrorTest == "returns error on error"

Init ==
    /\ hooks = [h \in HookIds |-> NoHook]
    /\ invocations = << >>
    /\ cache = InitCache
    /\ cacheLog = {}
    /\ completed = << >>
    /\ mutationsObject = ShopperBasketsMutations
    /\ matrix = cacheUpdateMatrix
    /\ pendingMocks = {}
    /\ test = NoTest
    /\ query = NoQuery
    /\ request = NoRequest
    /\ verdicts = << >>

\* Faulty hooks: the lookup stores a default entry in the matrix; rendering
\* the hook already calls the client.
useShopperBasketsMutationRegistering(h, mutation) ==
    /\ hooks[h] = NoHook
    /\ \A g \in HookIds : g < h => hooks[g] # NoHook
    /\ hooks' = [hooks EXCEPT ![h] =
                    [mutation |-> mutation,
                     getCacheUpdates |-> getCacheUpdates(mutation)]]
    /\ matrix' = [matrix EXCEPT ![mutation] =
                    [entry |-> mutation, recipe |-> "invalidateBasket"]]
    /\ UNCHANGED <<invocations, cache, cacheLog, completed>>
    /\ UNCHANGED <<mutationsObject, testVars>>

useShopperBasketsMutationEager(h, mutation) ==
    /\ hooks[h] = NoHook
    /\ \A g \in HookIds : g < h => hooks[g] # NoHook
    /\ Len(invocations) < MaxInvocations
    /\ hooks' = [hooks EXCEPT ![h] =
                    [mutation |-> mutation,
                     getCacheUpdates |-> getCacheUpdates(mutation)]]
    /\ invocations' = Append(invocations,
            [hook |-> h, options |-> [basketId |-> "b1"],
             calls |-> method(mutation, [basketId |-> "b1"]),
             status |-> "loading", response |-> Pending,
             data |-> NoData, error |-> NoError])
    /\ UNCHANGED <<cache, cacheLog, completed>>
    /\ UNCHANGED <<staticVars, testVars>>

\* A component renders useShopperBasketsMutation(mutation).
useShopperBasketsMutation(h, mutation) ==
    /\ hooks[h] = NoHook
    /\ \A g \in HookIds : g < h => hooks[g] # NoHook
    /\ hooks' = [hooks EXCEPT ![h] =
                    [mutation |-> mutation,
                     getCacheUpdates |-> getCacheUpdates(mutation)]]
    /\ UNCHANGED <<invocations, cache, cacheLog, completed>>
    /\ UNCHANGED <<staticVars, testVars>>

\* The caller calls the hook's invocation function with its options.
mutate(h, opts) ==
    /\ hooks[h] # NoHook
    /\ Len(invocations) < MaxInvocations
    /\ invocations' = Append(invocations,
            [hook |-> h, options |-> opts,
             calls |-> method(hooks[h].mutation, opts),
             status |-> "loading", response |-> Pending,
             data |-> NoData, error |-> NoError])
    /\ UNCHANGED <<hooks, cache, cacheLog, completed>>
    /\ UNCHANGED <<staticVars, testVars>>

\* The API call of invocation i returns; the promise settles; on success the
\* hook's cache-update entry is evaluated and applied to the shared cache.
settle(i, response) ==
    /\ i \in 1..Len(invocations)
    /\ invocations[i].status = "loading"
    /\ LET inv == invocations[i]
           outcome == methodResult(response)
           updates == CacheUpdates(hooks[inv.hook].getCacheUpdates,
                                   inv.options, outcome.payload)
       IN  IF outcome.ok
           THEN /\ invocations' = [invocations EXCEPT ![i] =
                        [inv EXCEPT !.status = "success",
                                    !.response = response,
                                    !.data = outcome.payload]]
                /\ cache' = updateCache(cache, updates)
                /\ cacheLog' = cacheLog \cup
                        {[invocation |-> i, op |-> u.op, key |-> u.key] :
                            u \in updates}
           ELSE /\ invocations' = [invocations EXCEPT ![i] =
                        [inv EXCEPT !.status = "error",
                                    !.response = response,
                                    !.error = outcome.error]]
                /\ UNCHANGED <<cache, cacheLog>>
    /\ completed' = Append(completed, i)
    /\ UNCHANGED hooks
    /\ UNCHANGED <<staticVars, testVars>>

Next ==
    \/ \E h \in HookIds, m \in ShopperBasketsMutations :
            useShopperBasketsMutation(h, m)
    \/ \E h \in HookIds, o \in Options : mutate(h, o)
    \/ \E i \in 1..MaxInvocations, r \in Responses : settle(i, r)

Spec == Init /\ [][Next]_vars

\* Every API call returns: the HTTP client resolves or rejects each request,
\* and the event loop then runs the promise's callbacks.
FairSpec ==
    Spec /\ \A i \in 1..MaxInvocations :
                WF_vars(\E r \in Responses : settle(i, r))

\* ------------------------------------------------ the query hook test run
\* Faulty mocks: the interceptor is registered for another path; the error
\* test registers a successful answer.
MockOnSuccessOtherPath(data) ==
    [path |-> "/shopper/shopper-customers/", code |-> 200, body |-> data]

MockOnErrorAnswersOk ==
    [path |-> contextsEndpoint, code |-> 200, body |-> EmptyBody]

\* mockQueryEndpoint(contextsEndpoint, data): one interceptor answering the
\* endpoint once, successfully, with the test's data.
MockOnSuccess(data) ==
    [path |-> contextsEndpoint, code |-> 200, body |-> data]

\* mockQueryEndpoint(contextsEndpoint, {}, 400)
MockOnError == [path |-> contextsEndpoint, code |-> 400, body |-> EmptyBody]

\* beforeEach(() => nock.cleanAll()), then the test starts with its case of
\* testCases.
beforeEach(name, queryName, data) ==
    /\ test.phase = "idle"
    /\ Len(verdicts) < MaxTests
    /\ pendingMocks' = {}
    /\ test' = [name |-> name, queryName |-> queryName,
                expected |-> IF name = SuccessTest THEN data ELSE NoData,
                phase |-> "started"]
    /\ query' = NoQuery
    /\ request' = NoRequest
    /\ UNCHANGED <<verdicts, hookVars, staticVars>>

\* The first statement of either test body.
mockQueryEndpoint ==
    /\ test.phase = "started"
    /\ pendingMocks' = pendingMocks \cup
            {IF test.name = SuccessTest THEN MockOnSuccess(test.expected)
             ELSE MockOnError}
    /\ test' = [test EXCEPT !.phase = "mocked"]
    /\ UNCHANGED <<query, request, verdicts, hookVars, staticVars>>

\* renderHookWithProviders(() => queries[queryName](OPTIONS))
renderHookWithProviders ==
    /\ test.phase = "mocked"
    /\ query' = [status |-> "loading", data |-> NoData, error |-> NoError]
    /\ test' = [test EXCEPT !.phase = "rendered"]
    /\ UNCHANGED <<pendingMocks, request, verdicts, hookVars, staticVars>>

\* The mocked auth module: ready() resolves with the access token.
authReady ==
    /\ query.status = "loading"
    /\ request.token = "none"
    /\ request' = [request EXCEPT !.token = "access_token"]
    /\ UNCHANGED <<pendingMocks, test, query, verdicts, hookVars, staticVars>>

\* The query hook sends its request; nock answers it from a pending
\* interceptor of that path, which it consumes, or refuses it.
sendRequest ==
    /\ query.status = "loading"
    /\ request.token # "none"
    /\ ~request.sent
    /\ LET matching == {m \in pendingMocks : m.path = contextsEndpoint}
       IN  IF matching = {}
           THEN /\ request' = [request EXCEPT !.sent = TRUE,
                                   !.path = contextsEndpoint]
                /\ UNCHANGED pendingMocks
           ELSE \E m \in matching :
                /\ request' = [request EXCEPT !.sent = TRUE,
                                   !.path = contextsEndpoint,
                                   !.replied = TRUE,
                                   !.code = m.code, !.body = m.body]
                /\ pendingMocks' = pendingMocks \ {m}
    /\ UNCHANGED <<test, query, verdicts, hookVars, staticVars>>

\* The answer arrives: a successful one gives the success status with the
\* body as data, any other (an error status, no answer) the error status.
receiveResponse ==
    /\ query.status = "loading"
    /\ request.sent
    /\ query' = IF request.replied /\ request.code = 200
                THEN [status |-> "success", data |-> request.body,
                      error |-> NoError]
                ELSE [status |-> "error", data |-> NoData,
                      error |-> IF request.replied THEN "http400"
                                ELSE "networkFailure"]
    /\ UNCHANGED <<pendingMocks, test, request, verdicts, hookVars,
                   staticVars>>

\* waitAndExpectSuccess and expect(data).toEqual(data), or
\* waitAndExpectError: the wait ends when the hook's value has changed.
waitAndExpect ==
    /\ test.phase = "rendered"
    /\ query.status \in {"success", "error"}
    /\ test' = [test EXCEPT !.phase =
                    IF test.name = SuccessTest
                    THEN IF query.status = "success"
                               /\ query.data = test.expected
                         THEN "passed" ELSE "failed"
                    ELSE IF query.status = "error"
                         THEN "passed" ELSE "failed"]
    /\ UNCHANGED <<pendingMocks, query, request, verdicts, hookVars,
                   staticVars>>

\* afterEach: expect(nock.pendingMocks().length).toBe(0)
afterEach ==
    /\ test.phase \in {"passed", "failed"}
    /\ verdicts' = Append(verdicts,
            [name |-> test.name, expected |-> test.expected,
             body |-> test.phase,
             afterEach |-> IF pendingMocks = {} THEN "passed" ELSE "failed"])
    /\ test' = NoTest
    /\ UNCHANGED <<pendingMocks, query, request, hookVars, staticVars>>

QueryNext ==
    \/ \E name \in {SuccessTest, ErrorTest}, q \in QueryNames,
          d \in QueryPayloads : beforeEach(name, q, d)
    \/ mockQueryEndpoint
    \/ renderHookWithProviders
    \/ authReady
    \/ sendRequest
    \/ receiveResponse
    \/ waitAndExpect
    \/ afterEach

\* The event loop runs the hook's pending steps and nock answers a request.
QuerySpec ==
    /\ Init
    /\ [][QueryNext]_vars
    /\ WF_vars(authReady)
    /\ WF_vars(sendRequest)
    /\ WF_vars(receiveResponse)

\* What a hook surfaces: the state of its latest invocation.
LastInvocation(h) ==
    LET mine == {i \in 1..Len(invocations) : invocations[i].hook = h}
    IN  IF mine = {} THEN 0 ELSE CHOOSE i \in mine : \A j \in mine : j <= i

HookStatus(h) ==
    IF LastInvocation(h) = 0 THEN "idle"
    ELSE invocations[LastInvocation(h)].status

HookData(h) ==
    IF LastInvocation(h) = 0 THEN NoData
    ELSE invocations[LastInvocation(h)].data

HookError(h) ==
    IF LastInvocation(h) = 0 THEN NoError
    ELSE invocations[LastInvocation(h)].error

TypeOK ==
    /\ \A h \in HookIds :
          hooks[h] = NoHook \/ hooks[h].mutation \in ShopperBasketsMutations
    /\ Len(invocations) <= MaxInvocations
    /\ \A k \in CacheKeys : cache[k] \in {"fresh", "stale", "absent"}

\* ------------------------------------------------------------------ helpers
Started == 1..Len(invocations)
MutationOf(i) == hooks[invocations[i].hook].mutation
Succeeded(i) == invocations[i].status = "success"
Failed(i) == invocations[i].status = "error"
\* The cache actions applied on behalf of invocation i.
Applied(i) == {[op |-> e.op, key |-> e.key] : e \in {x \in cacheLog : x.invocation = i}}
\* Invocation i leaves loading in this step.
Settles(i) ==
    /\ i \in Started
    /\ invocations[i].status = "loading"
    /\ invocations'[i].status # "loading"
Touched(i, k) ==
    \E a \in Applied(i) : a.key = k /\ a.op \in {"invalidate", "remove"}

\* ------------------------------------------------------------------- claims

\* C1: a cache action is attributed only to an invocation that was started,
\* is no longer loading, and whose network call returned a successful
\* response; the cache differs from its initial contents only if such an
\* invocation exists.
C1_CacheUpdateOnlyAfterSuccess ==
    /\ \A e \in cacheLog :
          /\ e.invocation \in Started
          /\ invocations[e.invocation].status = "success"
          /\ invocations[e.invocation].response.returned
          /\ invocations[e.invocation].response.ok
    /\ cache # InitCache =>
          \E i \in Started : Succeeded(i) /\ invocations[i].response.ok

C1_Witness ==
    \E i, j \in Started :
        /\ Succeeded(i) /\ Applied(i) # {}
        /\ invocations[j].status = "loading"
        /\ cache # InitCache

\* C2: the step in which the network call of an invocation fails leaves the
\* cache and the log of cache actions as they were, puts the invocation in
\* the error status and exposes exactly the error of the HTTP client.
C2_FailureLeavesCache ==
    [][\A i \in Started :
          (Settles(i) /\ ~invocations'[i].response.ok) =>
              /\ cache' = cache
              /\ cacheLog' = cacheLog
              /\ invocations'[i].status = "error"
              /\ invocations'[i].error = invocations'[i].response.error
              /\ invocations'[i].error \in Errors]_vars

C2_Witness ==
    \E i, j \in Started :
        /\ Failed(i) /\ invocations[i].error = "networkFailure"
        /\ Applied(i) = {}
        /\ Failed(j) /\ invocations[j].error = "http400"
        /\ cache = InitCache

\* C3: every started invocation has made exactly one API client call,
\* whether it is loading, has succeeded or has failed.
C3_OneCallPerInvocation ==
    \A i \in Started : Len(invocations[i].calls) = 1

C3_Witness ==
    \E i, j \in Started :
        /\ Succeeded(i) /\ Failed(j)
        /\ Len(invocations[i].calls) = 1 /\ Len(invocations[j].calls) = 1

\* C4: an invocation of createBasket or deleteBasket that has succeeded has
\* invalidated the list-of-baskets entry, which is then no longer fresh; one
\* that has not succeeded has applied no action to that entry.
C4_ListInvalidatedAfterSuccess ==
    \A i \in Started :
        MutationOf(i) \in CreateDeleteMutations =>
            /\ Succeeded(i) =>
                  /\ [op |-> "invalidate", key |-> ListKey] \in Applied(i)
                  /\ cache[ListKey] # "fresh"
            /\ ~Succeeded(i) => \A a \in Applied(i) : a.key # ListKey

C4_Witness ==
    \E i, j \in Started :
        /\ MutationOf(i) = "createBasket" /\ Succeeded(i)
        /\ MutationOf(j) = "deleteBasket" /\ invocations[j].status = "loading"
        /\ cache[ListKey] = "stale"

\* C5: the step in which a mutation on a basket's sub-resource succeeds
\* invalidates the entry of the basket named by the options' basketId: the
\* action is logged and the entry is not fresh after the step.
C5_ParentBasketInvalidated ==
    [][\A i \in Started :
          (Settles(i) /\ invocations'[i].status = "success"
              /\ MutationOf(i) \in SubResourceMutations) =>
              LET k == BasketKey(invocations[i].options.basketId)
              IN  /\ [invocation |-> i, op |-> "invalidate", key |-> k]
                        \in cacheLog'
                  /\ cache'[k] # "fresh"
                  /\ cache[k] = "fresh" => cache'[k] = "stale"]_vars

C5_Witness ==
    \E i \in Started :
        /\ MutationOf(i) = "addItemToBasket" /\ Succeeded(i)
        /\ invocations[i].options.basketId = "b2"
        /\ cache[BasketKey("b2")] = "stale"

C7_BasketEntryRemovedInserted ==
    [][\A i \in Started :
          (Settles(i) /\ invocations'[i].status = "success") =>
              /\ MutationOf(i) = "deleteBasket" =>
                    cache'[BasketKey(invocations[i].options.basketId)]
                        = "absent"
              /\ MutationOf(i) = "createBasket" =>
                    cache'[BasketKey(invocations'[i].data.basketId)]
                        = "fresh"]_vars

C7_Witness ==
    /\ Len(completed) = 2
    /\ MutationOf(completed[1]) = "deleteBasket"
    /\ MutationOf(completed[2]) = "createBasket"
    /\ Succeeded(completed[1]) /\ Succeeded(completed[2])
    /\ invocations[completed[1]].options.basketId = "b1"
    /\ invocations[completed[2]].data.basketId = "b2"
    /\ cache[BasketKey("b1")] = "absent"
    /\ cache[BasketKey("b2")] = "fresh"

\* C8: an invocation whose API call returned a successful response is in the
\* success status with data equal to the response payload and no error, and
\* a hook whose latest invocation it is surfaces that status and data.
C8_SuccessYieldsPayload ==
    \A i \in Started :
        (invocations[i].response.returned /\ invocations[i].response.ok) =>
            /\ invocations[i].status = "success"
            /\ invocations[i].data = invocations[i].response.payload
            /\ invocations[i].data \in Payloads
            /\ invocations[i].error = NoError
            /\ \A h \in HookIds : LastInvocation(h) = i =>
                  /\ HookStatus(h) = "success"
                  /\ HookData(h) = invocations[i].response.payload

C8_Witness ==
    \E h \in HookIds :
        /\ HookStatus(h) = "success"
        /\ HookData(h) = [basketId |-> "b2"]
        /\ invocations[LastInvocation(h)].response.ok

\* C9: an invocation whose API call returned an error response is in the
\* error status with no data, and a hook whose latest invocation it is
\* surfaces the error status and no data.
C9_ErrorYieldsNoData ==
    \A i \in Started :
        (invocations[i].response.returned /\ ~invocations[i].response.ok) =>
            /\ invocations[i].status = "error"
            /\ invocations[i].data = NoData
            /\ \A h \in HookIds : LastInvocation(h) = i =>
                  /\ HookStatus(h) = "error"
                  /\ HookData(h) = NoData

C9_Witness ==
    \E h \in HookIds :
        /\ HookStatus(h) = "error"
        /\ HookError(h) = "http400"
        /\ HookData(h) = NoData

C11_EveryMutationHasEntry ==
    /\ \A m \in mutationsObject :
          m \in DOMAIN matrix /\ matrix[m] # UndefinedEntry
    /\ \A h \in HookIds :
          hooks[h] # NoHook =>
              /\ hooks[h].mutation \in mutationsObject
              /\ hooks[h].getCacheUpdates # UndefinedEntry
              /\ hooks[h].getCacheUpdates.recipe # "none"

C11_Witness ==
    /\ hooks[1] # NoHook /\ hooks[1].mutation = "addTaxesForBasket"
    /\ hooks[2] # NoHook /\ hooks[2].mutation = "createBasket"
    /\ hooks[1].getCacheUpdates.recipe = "invalidateBasket"

\* C16: no step changes the mutations object or the matrix, and a rendered
\* hook keeps its mutation name and its entry; both objects stay as written.
C16_EnumerationAndMatrixStatic ==
    [][/\ mutationsObject' = mutationsObject
       /\ matrix' = matrix
       /\ matrix' = cacheUpdateMatrix
       /\ mutationsObject' = ShopperBasketsMutations
       /\ \A h \in HookIds : hooks[h] # NoHook => hooks'[h] = hooks[h]]_vars

C16_Witness ==
    /\ \A h \in HookIds : hooks[h] # NoHook
    /\ \E i, j \in Started : Succeeded(i) /\ Failed(j)
    /\ cache # InitCache
    /\ matrix = cacheUpdateMatrix
    /\ mutationsObject = ShopperBasketsMutations

\* C17: an invocation of the hook rendered for mutation M has called the
\* client method named M, and only it, with the caller's options; the entry
\* the hook holds is the one registered for M and the actions applied on
\* success are those of that entry.
C17_OwnMethodAndOwnEntry ==
    /\ \A h \in HookIds :
          hooks[h] # NoHook =>
              hooks[h].getCacheUpdates = cacheUpdateMatrix[hooks[h].mutation]
    /\ \A i \in Started :
          /\ \A c \in 1..Len(invocations[i].calls) :
                /\ invocations[i].calls[c].method = MutationOf(i)
                /\ invocations[i].calls[c].options = invocations[i].options
          /\ invocations[i].calls # << >>
          /\ Succeeded(i) =>
                Applied(i) =
                    CacheUpdates(cacheUpdateMatrix[MutationOf(i)],
                                 invocations[i].options, invocations[i].data)

C17_Witness ==
    \E i, j \in Started :
        /\ MutationOf(i) = "removeItemFromBasket"
        /\ MutationOf(j) = "mergeBasket"
        /\ invocations[i].calls[1].method = "removeItemFromBasket"
        /\ invocations[j].calls[1].method = "mergeBasket"
        /\ invocations[i].options # invocations[j].options
        /\ Succeeded(i) /\ Succeeded(j)

\* The number of API client calls made so far.
RECURSIVE ApiCallCount(_)
ApiCallCount(invs) ==
    IF invs = << >> THEN 0
    ELSE Len(Head(invs).calls) + ApiCallCount(Tail(invs))

HookRendered == \E h \in HookIds : hooks[h] = NoHook /\ hooks'[h] # NoHook

\* C19: a step that renders a hook makes no API call and changes neither
\* the cache nor the log of cache actions; as long as no invocation function
\* has been called the call count is zero and the cache is as it began.
C19_RenderingCallsNothing ==
    [][/\ HookRendered =>
             /\ ApiCallCount(invocations') = ApiCallCount(invocations)
             /\ invocations' = invocations
             /\ cache' = cache
             /\ cacheLog' = cacheLog
       /\ Len(invocations') = 0 =>
             /\ ApiCallCount(invocations') = 0
             /\ cache' = InitCache]_vars

C19_Witness ==
    /\ \A h \in HookIds : hooks[h] # NoHook
    /\ hooks[1].mutation # hooks[2].mutation
    /\ invocations = << >>
    /\ ApiCallCount(invocations) = 0
    /\ cache = InitCache

\* C20: the step in which a mutation on a sub-resource of basket A succeeds
\* applies no action to, and leaves unchanged, the entry of every other
\* basket B; the list entry is left alone as well.
C20_OtherBasketsUntouched ==
    [][\A i \in Started :
          (Settles(i) /\ invocations'[i].status = "success"
              /\ MutationOf(i) \in SubResourceMutations) =>
              /\ \A b \in BasketIds \ {invocations[i].options.basketId} :
                    /\ cache'[BasketKey(b)] = cache[BasketKey(b)]
                    /\ \A e \in cacheLog' \ cacheLog : e.key # BasketKey(b)
              /\ cache'[ListKey] = cache[ListKey]]_vars

C20_Witness ==
    \E i \in Started :
        /\ MutationOf(i) = "updateShippingMethodForShipment" /\ Succeeded(i)
        /\ invocations[i].options.basketId = "b1"
        /\ invocations[i].data.basketId = "b2"
        /\ cache[BasketKey("b1")] = "stale"
        /\ cache[BasketKey("b2")] = "fresh"

Statuses == {"idle", "loading", "success", "error"}
StatusOf(i) ==
    IF i \in Started THEN invocations[i].status ELSE "notStarted"

\* C18: a hook's status is one of idle, loading, success, error, and idle
\* exactly while its invocation function has not been called; an invocation
\* is loading from the step that starts it, leaves loading only in the step
\* in which its API call returns, to success on a successful response and to
\* error on a failed one, never returns to loading, and, every API call
\* returning, eventually leaves loading.
C18_StatusLifecycle ==
    /\ [](\A h \in HookIds :
            /\ HookStatus(h) \in Statuses
            /\ HookStatus(h) = "idle" <=>
                  \A i \in Started : invocations[i].hook # h)
    /\ [][/\ \A i \in 1..Len(invocations') :
                i \notin Started => invocations'[i].status = "loading"
          /\ Len(invocations') >= Len(invocations)
          /\ \A i \in Started :
                /\ invocations[i].status # "loading" =>
                      invocations'[i] = invocations[i]
                /\ Settles(i) =>
                      /\ invocations'[i].response.returned
                      /\ invocations'[i].status =
                            IF invocations'[i].response.ok
                                THEN "success" ELSE "error"
                /\ invocations[i].status = "loading" =>
                      ~invocations[i].response.returned]_vars
    /\ \A i \in 1..MaxInvocations :
          (StatusOf(i) = "loading") ~> (StatusOf(i) \in {"success", "error"})

C18_Witness ==
    /\ Len(invocations) = 2
    /\ hooks[2] # NoHook
    /\ HookStatus(1) = "error" /\ HookStatus(2) = "idle"
    /\ invocations[1].status = "success"
    /\ invocations[2].status = "error"

QuerySettled == query.status \in {"success", "error"}

\* C12: in the success test the rendered query hook never settles in
\* anything but the success status with the body the endpoint answered,
\* which is the test's data, and from its rendering it eventually gets there.
C12_QuerySuccessYieldsData ==
    /\ []((test.name = SuccessTest /\ QuerySettled) =>
            /\ query.status = "success"
            /\ request.replied
            /\ query.data = request.body
            /\ query.data = test.expected)
    /\ (test.name = SuccessTest /\ test.phase = "rendered"
            /\ query.status = "loading")
          ~> (query.status = "success" /\ query.data = request.body)

C12_Witness ==
    /\ test.name = SuccessTest /\ test.phase = "passed"
    /\ query.status = "success"
    /\ query.data = [customQualifiers |-> "vip"]
    /\ Len(verdicts) = 1 /\ verdicts[1].name = ErrorTest

\* C13: in the error test, where the endpoint answers 400, the rendered
\* query hook never reports success and from its rendering it eventually
\* reaches the error status, so it does not stay loading.
C13_QueryErrorYieldsError ==
    /\ []((test.name = ErrorTest /\ QuerySettled) =>
            /\ query.status = "error"
            /\ request.replied /\ request.code = 400
            /\ query.data = NoData)
    /\ (test.name = ErrorTest /\ test.phase = "rendered"
            /\ query.status = "loading")
          ~> (query.status = "error")

C13_Witness ==
    /\ test.name = ErrorTest /\ test.phase = "passed"
    /\ query.status = "error" /\ query.error = "http400"
    /\ request.code = 400

\* C14: once the query hook has reached success or error its request has
\* been sent and no interceptor is pending, and every finished test, of
\* either kind, has passed the pending-mocks check of afterEach.
C14_NoPendingMocks ==
    /\ QuerySettled => (request.sent /\ pendingMocks = {})
    /\ \A t \in 1..Len(verdicts) : verdicts[t].afterEach = "passed"

C14_Witness ==
    /\ Len(verdicts) = 2
    /\ verdicts[1].name = SuccessTest /\ verdicts[2].name = ErrorTest
    /\ verdicts[1].afterEach = "passed" /\ verdicts[2].afterEach = "passed"
    /\ QuerySettled /\ pendingMocks = {}

\* The cache actions logged in log on behalf of invocation i.
AppliedIn(log, i) ==
    {[op |-> e.op, key |-> e.key] : e \in {x \in log : x.invocation = i}}

\* The recipe of invocation i for the response it received.
RecipeOf(invs, i) ==
    CacheUpdates(cacheUpdateMatrix[hooks[invs[i].hook].mutation],
                 invs[i].options, invs[i].response.payload)

\* C21: of two invocations in flight together, whichever completes first,
\* the one whose call fails applies no cache action and its failing step
\* leaves the cache and the other's applied actions as they are, and the
\* one whose call succeeds applies its whole recipe in its own step; while
\* one has failed the other, still loading, can complete successfully.
C21_FailureDoesNotDisturbSuccess ==
    /\ [](\A i, j \in Started :
            (i # j /\ StatusOf(i) = "loading"
                /\ invocations[j].response.returned
                /\ ~invocations[j].response.ok) =>
                ENABLED (\E r \in Responses : r.ok /\ settle(i, r)))
    /\ [][\A i, j \in Started :
            i # j =>
              /\ (Settles(j) /\ ~invocations'[j].response.ok) =>
                    /\ cache' = cache
                    /\ AppliedIn(cacheLog', j) = {}
                    /\ AppliedIn(cacheLog', i) = AppliedIn(cacheLog, i)
                    /\ invocations'[i] = invocations[i]
              /\ (Settles(i) /\ invocations'[i].response.ok) =>
                    /\ invocations'[i].status = "success"
                    /\ AppliedIn(cacheLog', i) = RecipeOf(invocations', i)
                    /\ cache' = updateCache(cache, RecipeOf(invocations', i))
                    /\ AppliedIn(cacheLog', j) = AppliedIn(cacheLog, j)]_vars

\* Invocation 2 was started while 1 was loading and failed first; 1 then
\* succeeded and its recipe changed the cache.
C21_Witness ==
    /\ completed = <<2, 1>>
    /\ Failed(2) /\ Succeeded(1)
    /\ MutationOf(1) = "deleteBasket" /\ MutationOf(2) = "addItemToBasket"
    /\ Applied(2) = {}
    /\ Applied(1) = RecipeOf(invocations, 1)
    /\ cache[ListKey] = "stale"
    /\ cache[BasketKey(invocations[1].options.basketId)] = "absent"

====
